---- MODULE Spec2Model ----
(***************************************************************************)
(* The supervisor of src/process: the run_deamon loop (drive step, event   *)
(* fetch, event handlers), the child start routine and the exit watcher,   *)
(* together with the part of the environment they interact with: the child *)
(* processes, their wait statuses, the control queue and the stdin writer. *)
(* Time is abstracted: a state that carries a deadline may see its timer   *)
(* fire at any moment; timeout_at records which delay the deadline was     *)
(* computed from.                                                          *)
(***************************************************************************)
EXTENDS Integers, Sequences, FiniteSets, TLC

\* ------------------------------------------------------------------ bounds
MaxSpawn == 2            \* children spawned in one behaviour (pids 1..MaxSpawn)
MaxControl == 2          \* Controls waiting in the control queue
MaxExitQueue == 1        \* wait statuses reaped but not yet fetched
MaxRestartAttempts == 3  \* the largest configured restart_attempts
MaxForeign == 1          \* exits of processes the Supervisor did not spawn
MaxLineLen == 3          \* bytes of a line pushed into the stdin sink
MaxSink == 1             \* lines waiting in the channel of the stdin writer
MaxStdinBytes == 4       \* bytes on the child's stdin after which no line is pushed
MaxActions == 2          \* actions in the list of a task
MaxFirings == 2          \* firings of the task in one behaviour
MaxCacheSize == 3        \* the largest configured cache_size
MaxOutput == 2           \* lines the children emit in one behaviour
MaxMerge == 2            \* lines waiting in a merge channel
MaxClients == 2          \* socket connections accepted in one behaviour
MaxClientInput == 1      \* lines a socket connection sends in one behaviour

\* ------------------------------------------------------------- constants
NoPid == 0
None == 0
Err == -1
SIGKILL == 9
SIGTERM == 15

ForeignPid == MaxSpawn + 1
ExitCodes == {0, 1}
RestartAttempts == {0, 1, MaxRestartAttempts}
RestartCondition == {"Never", "UnlessCrashed", "IfCrashed", "Always"}

\* The bytes lines are made of: a letter and two kinds of whitespace.
Chars == {"a", " ", "\n"}
Lines == UNION {[1..n -> Chars] : n \in 0..MaxLineLen}

\* ActionType, and the action lists a task is configured with.
ActionType == {"Backup", "Command", "Start", "Stop", "Restart"}
ActionLists == UNION {[1..n -> ActionType] : n \in 0..MaxActions}
Ok == 0

\* The configured sizes of the history ring, the socket connections and the
\* children a channel can belong to.
CacheSizes == 1..MaxCacheSize
Clients == 1..MaxClients
Children == 1..MaxSpawn

\* restart_attempts is a u16; the values the configuration file is tried with.
U16_MAX == 65535
YamlRestartAttempts == {-1, 0, 1, MaxRestartAttempts, U16_MAX + 1}

\* config.process.command by what shell_words::split makes of it: at least
\* one word ("valid"), a parse error such as an unclosed quote ("invalid"),
\* or no word at all, the empty or all-blank string ("empty").
Commands == {"valid", "invalid", "empty"}

VARIABLES
    restart,            \* config.process.restart
    restart_attempts,   \* config.process.restart_attempts
    yaml_restart_attempts,  \* restart-attempts as written in the config file
    config_status,      \* "ok": main went on to start the services;
                        \* "error": main returned the deserialisation error
    command,            \* config.process.command, as one of Commands
    wanted,             \* run_deamon's wanted
    state,              \* run_deamon's state
    pc,                 \* position in the loop body: "drive" or "fetch";
                        \* "panicked" once the task of run_deamon has died
    event,              \* the event fetch_event returned last
    control_receiver,   \* the control queue
    exit_receiver,      \* the exit queue
    STDIN,              \* the stdin sink cell: None or the child it belongs to
    OUTPUT_WATCH,       \* the broadcast receiver cell: None or its child
    stdin_open,         \* the receiver of the sink in STDIN still exists
    nextPid,            \* the pid the next successful spawn gets
    live,               \* children that have not terminated
    zombies,            \* wait statuses not yet reaped by waitpid
    foreign,            \* foreign processes that have terminated so far
    stdin_receiver,     \* the lines in the channel behind the stdin sink
    child_stdin,        \* the bytes written to the stdin pipe of the child
    task,               \* the TaskConfig of the scheduled task
    firings,            \* the detached tasks task_scheduler spawned, one a firing
    cache_size,         \* config.process.cache_size
    OUTPUT_CACHE,       \* the history ring
    emitted,            \* every line read from a child so far: <<child, line>>
    merge_receiver,     \* per child: the lines in its merge channel
    watch,              \* per child: value and version of its watch channel
    clients,            \* per socket connection: what handle_client made of it
    main_pc             \* where main is: "serving" (waiting for a signal),
                        \* "waiting" (in wait()), "removing" (wait() returned),
                        \* "exited" (std::process::exit was called)

hub == <<STDIN, OUTPUT_WATCH>>
procs == <<nextPid, live, stdin_open>>
machine == <<wanted, state, pc, event>>
pipe == <<stdin_receiver, child_stdin>>
sched == <<task, firings>>
sock == <<cache_size, OUTPUT_CACHE, emitted, merge_receiver, watch, clients>>
services == <<pipe, sched, sock>>
deamon_state == <<machine, control_receiver, exit_receiver, hub, procs,
                  zombies, foreign>>
config == <<restart, restart_attempts, yaml_restart_attempts, config_status,
           command>>
vars == <<restart, restart_attempts, yaml_restart_attempts, config_status,
          command, wanted, state, pc, event,
          control_receiver, exit_receiver, STDIN, OUTPUT_WATCH, stdin_open,
          nextPid, live, zombies, foreign, stdin_receiver, child_stdin,
          task, firings, cache_size, OUTPUT_CACHE, emitted, merge_receiver,
          watch, clients, main_pc>>

\* ------------------------------------------------------------ ProcessState
Stopped ==
    [tag |-> "Stopped", pid |-> NoPid, attempt |-> 0, timeout_at |-> "none"]

Watching(pid, timeout_at, attempt) ==
    [tag |-> "Watching", pid |-> pid, attempt |-> attempt,
     timeout_at |-> timeout_at]

WaitingRestart(timeout_at, attempt) ==
    [tag |-> "WaitingRestart", pid |-> NoPid, attempt |-> attempt,
     timeout_at |-> timeout_at]

Running(pid) ==
    [tag |-> "Running", pid |-> pid, attempt |-> 0, timeout_at |-> "none"]

StoppingCommand(timeout_at, pid) ==
    [tag |-> "Stopping.Command", pid |-> pid, attempt |-> 0,
     timeout_at |-> timeout_at]

StoppingTerminate(timeout_at, pid) ==
    [tag |-> "Stopping.Terminate", pid |-> pid, attempt |-> 0,
     timeout_at |-> timeout_at]

StoppingKill ==
    [tag |-> "Stopping.Kill", pid |-> NoPid, attempt |-> 0,
     timeout_at |-> "none"]

StoppingTags == {"Stopping.Command", "Stopping.Terminate", "Stopping.Kill"}

NoEvent == [type |-> "None", pid |-> NoPid, exit_code |-> 0]

Event(type, pid, exit_code) ==
    [type |-> type, pid |-> pid, exit_code |-> exit_code]

\* ------------------------------------------------------------------- Init
\* ---------------------------------------------------- the history ring
\* The ring deamon creates: size bytes of storage, nothing written.
NewRing(size) ==
    [buf |-> [i \in 0..(size - 1) |-> "nul"], position |-> 0, filled |-> FALSE]

write_byte_keep_oldest(ring, b) ==
    IF ring.filled
    THEN ring
    ELSE [buf |-> [ring.buf EXCEPT ![ring.position] = b],
          position |-> (ring.position + 1) % Cardinality(DOMAIN ring.buf),
          filled |-> ring.position + 1 = Cardinality(DOMAIN ring.buf)]

\* A byte is stored at the write position, which advances and wraps around.
write_byte(ring, b) ==
    [buf |-> [ring.buf EXCEPT ![ring.position] = b],
     position |-> (ring.position + 1) % Cardinality(DOMAIN ring.buf),
     filled |-> ring.filled \/ ring.position + 1 = Cardinality(DOMAIN ring.buf)]

\* cache.write_str(line): the bytes of the line, one after the other.
RECURSIVE write_str(_, _)
write_str(ring, line) ==
    IF line = <<>>
    THEN ring
    ELSE write_str(write_byte(ring, Head(line)), Tail(line))

\* cache.oldest_ordered(): the stored bytes from the oldest to the newest.
oldest_ordered(ring) ==
    LET n == Cardinality(DOMAIN ring.buf) IN
    IF ring.filled
    THEN [i \in 1..n |-> ring.buf[(ring.position + i - 1) % n]]
    ELSE [i \in 1..ring.position |-> ring.buf[i - 1]]

\* A connection nothing has been accepted on.
NoClient ==
    [phase |-> "idle", reader |-> FALSE, channel |-> None, input |-> <<>>,
     gen |-> None, seen |-> 0, data |-> <<>>, out |-> <<>>]

\* watch::channel(""): the initial value, at the initial version.
NewWatch == [value |-> <<>>, version |-> 0]

\* The hub before any child was started and any connection accepted.
InitSock(size) ==
    /\ cache_size = size
    /\ OUTPUT_CACHE = NewRing(size)
    /\ emitted = <<>>
    /\ merge_receiver = [g \in Children |-> <<>>]
    /\ watch = [g \in Children |-> NewWatch]
    /\ clients = [c \in Clients |-> NoClient]

\* A configuration without a task.
NoTask == [schedule |-> "invalid", run_if_stopped |-> FALSE, actions |-> <<>>]

\* serde's deserialisation of a YAML integer into a u16 field: the value
\* itself when it is in range, an error otherwise.
deserialize_u16(v) == IF v \in 0..U16_MAX THEN v ELSE Err

\* run_deamon before its first iteration, the hub cells and the processes.
InitDeamon ==
    /\ wanted = "Running"
    /\ state = Stopped
    /\ pc = "drive"
    /\ event = NoEvent
    /\ control_receiver = <<>>
    /\ exit_receiver = <<>>
    /\ STDIN = None
    /\ OUTPUT_WATCH = None
    /\ stdin_open = FALSE
    /\ nextPid = 1
    /\ live = {}
    /\ zombies = {}
    /\ foreign = 0
    /\ main_pc = "serving"
    /\ stdin_receiver = <<>>
    /\ child_stdin = <<>>
    /\ task = NoTask
    /\ firings = <<>>
    /\ InitSock(1)

\* The supervisor started from a configuration that was loaded.
Init ==
    /\ restart \in RestartCondition
    /\ restart_attempts \in RestartAttempts
    /\ yaml_restart_attempts = restart_attempts
    /\ config_status = "ok"
    /\ command = "valid"
    /\ InitDeamon

\* main: the configuration file is deserialised; on an error main returns it
\* and nothing is started.
ConfigInit ==
    /\ restart \in RestartCondition
    /\ yaml_restart_attempts \in YamlRestartAttempts
    /\ LET v == deserialize_u16(yaml_restart_attempts) IN
        /\ config_status = IF v = Err THEN "error" ELSE "ok"
        /\ restart_attempts = IF v = Err THEN None ELSE v
    /\ command \in Commands
    /\ InitDeamon

\* ------------------------------------------------------------- run::start
\* `&command[0]` on the empty word list of an empty command: an index out of
\* bounds, which panics inside start.
start_panics == command = "empty"

\* The results start can give now: Err (the command did not parse, or the
\* spawn or a later step failed), or Ok(pid) with a fresh pid.
StartResults ==
    {Err} \cup (IF command = "valid" /\ nextPid <= MaxSpawn THEN {nextPid}
                                                            ELSE {})

\* Every error return of start precedes the spawn or the installation of the
\* hub cells, so Err leaves them alone; Ok(pid) installs both cells and starts
\* the stdin writer of the new child.
start(res) ==
    IF res = Err
    THEN UNCHANGED <<nextPid, live, stdin_open, STDIN, OUTPUT_WATCH>>
    ELSE /\ nextPid' = nextPid + 1
         /\ live' = live \cup {res}
         /\ OUTPUT_WATCH' = res
         /\ STDIN' = res
         /\ stdin_open' = TRUE

\* The state after a start made with a fresh attempt counter.
started(res) ==
    IF res = Err
    THEN WaitingRestart("restart_delay", 2)
    ELSE Watching(res, "watch_delay", 1)


\* ---------------------------------------------------- the kill() primitive
\* kill succeeds on a process that exists, a zombie included, and fails with
\* ESRCH once the process has been reaped.
kill_ok(pid) == pid \in live \/ \E z \in zombies : z.pid = pid

\* SIGKILL cannot be caught: a running child it is sent to is terminated by
\* it. What SIGTERM does is up to the child (ChildExit, ChildSignaled).
kill(pid, sig) ==
    IF sig = SIGKILL /\ pid \in live
    THEN /\ live' = live \ {pid}
         /\ zombies' = zombies \cup
                         {[pid |-> pid, kind |-> "Signaled", code |-> sig]}
    ELSE UNCHANGED <<live, zombies>>

\* ------------------------------------------------------ stop_server_command
\* Ok(Stopping.Command) when the sink is present and its receiver still
\* exists (the stop command is then in the channel of the stdin writer);
\* otherwise Err, which the caller only logs.
stop_server_command(pid) ==
    IF STDIN # None /\ stdin_open
    THEN state' = StoppingCommand("term_timeout", pid)
    ELSE UNCHANGED state

\* ----------------------------------------------- run_deamon: the drive step
\* A panic in start unwinds run_deamon: its task ends with the state as it
\* was and the loop is gone. The first start of a run is the one made here,
\* and the starts of the event handlers are reached only after a start has
\* returned, so with an empty command this is where the panic happens.
Drive ==
    /\ pc = "drive"
    /\ CASE wanted = "Running" /\ state.tag = "Stopped" ->
                IF start_panics
                THEN /\ pc' = "panicked"
                     /\ UNCHANGED <<state, procs, hub>>
                ELSE /\ pc' = "fetch"
                     /\ \E res \in StartResults :
                            start(res) /\ state' = started(res)
         [] wanted = "Stopped" /\ state.tag = "Running" ->
                /\ pc' = "fetch"
                /\ stop_server_command(state.pid)
                /\ UNCHANGED <<procs, hub>>
         [] OTHER -> pc' = "fetch" /\ UNCHANGED <<state, procs, hub>>
    /\ UNCHANGED <<config, main_pc, services, wanted, event, control_receiver, exit_receiver,
                   zombies, foreign>>

\* ------------------------------------------------------- handle_exit_event
\* `a + b` on u16: the sum when it fits; past u16::MAX the outcome depends on
\* the build: a panic (overflow checks on, shown as Err) or the sum modulo
\* 2^16 (overflow checks off).
u16_add(a, b) ==
    IF a + b <= U16_MAX THEN {a + b} ELSE {Err, (a + b) % (U16_MAX + 1)}

restart_decision_swapped(policy, exit_code) ==
    \/ policy = "Always"
    \/ policy = "IfCrashed" /\ exit_code = 0
    \/ policy = "UnlessCrashed" /\ exit_code # 0

\* The matches! of handle_exit_event on (config.process.restart, exit_code != 0).
restart_decision(policy, exit_code) ==
    \/ policy = "Always"
    \/ policy = "IfCrashed" /\ exit_code # 0
    \/ policy = "UnlessCrashed" /\ exit_code = 0

handle_exit_event_no_increment(pid, exit_code) ==
    CASE state.tag = "Watching" /\ state.pid = pid ->
            /\ OUTPUT_WATCH' = None
            /\ STDIN' = None
            /\ stdin_open' = FALSE
            /\ state' = WaitingRestart("restart_delay", state.attempt)
            /\ UNCHANGED <<nextPid, live>>
      [] state.tag = "Running" /\ state.pid = pid ->
            IF restart_decision(restart, exit_code)
            THEN \E res \in StartResults : start(res) /\ state' = started(res)
            ELSE UNCHANGED <<state, procs, hub>>
      [] state.tag \in StoppingTags ->
            /\ state' = Stopped
            /\ UNCHANGED <<procs, hub>>
      [] OTHER -> UNCHANGED <<state, procs, hub>>

\* In the Watching arm the hub cells are cleared before `attempt + 1` is
\* evaluated, so a panic of the addition leaves them cleared and the state as
\* it was.
handle_exit_event(pid, exit_code) ==
    CASE state.tag = "Watching" /\ state.pid = pid ->
            /\ OUTPUT_WATCH' = None
            /\ STDIN' = None
            /\ stdin_open' = FALSE
            /\ \E n \in u16_add(state.attempt, 1) :
                    state' = IF n = Err
                             THEN state
                             ELSE WaitingRestart("restart_delay", n)
            /\ UNCHANGED <<nextPid, live>>
      [] state.tag = "Running" /\ state.pid = pid ->
            IF restart_decision(restart, exit_code)
            THEN \E res \in StartResults : start(res) /\ state' = started(res)
            ELSE UNCHANGED <<state, procs, hub>>
      [] state.tag \in StoppingTags ->
            /\ state' = Stopped
            /\ UNCHANGED <<procs, hub>>
      [] OTHER -> UNCHANGED <<state, procs, hub>>

\* -------------------------------------------------- handle_timeout_reached
handle_timeout_reached_blocked ==
    CASE state.tag = "Watching" ->
            /\ state' = Running(state.pid)
            /\ UNCHANGED <<wanted, procs, hub, zombies>>
      [] state.tag = "WaitingRestart" ->
            /\ \E res \in StartResults :
                /\ start(res)
                /\ IF res # Err
                   THEN /\ state' = Watching(res, "watch_delay", state.attempt)
                        /\ UNCHANGED wanted
                   ELSE IF state.attempt >= restart_attempts
                        THEN /\ wanted' = "Stopped"
                             /\ state' = Stopped
                        ELSE /\ state' = WaitingRestart("restart_delay",
                                                        state.attempt + 1)
                             /\ UNCHANGED wanted
            /\ UNCHANGED <<zombies>>
      [] state.tag = "Stopping.Command" ->
            /\ kill(state.pid, SIGTERM)
            /\ state' = IF kill_ok(state.pid)
                        THEN StoppingTerminate("kill_timeout", state.pid)
                        ELSE state
            /\ UNCHANGED <<wanted, nextPid, stdin_open, hub>>
      [] state.tag = "Stopping.Terminate" ->
            /\ kill(state.pid, SIGKILL)
            /\ state' = StoppingKill
            /\ UNCHANGED <<wanted, nextPid, stdin_open, hub>>
      [] OTHER -> UNCHANGED <<wanted, state, procs, hub, zombies>>

handle_timeout_reached_off_by_one ==
    CASE state.tag = "Watching" ->
            /\ state' = Running(state.pid)
            /\ UNCHANGED <<wanted, procs, hub, zombies>>
      [] state.tag = "WaitingRestart" ->
            /\ \E res \in StartResults :
                /\ start(res)
                /\ IF res # Err
                   THEN /\ state' = Watching(res, "watch_delay", state.attempt)
                        /\ UNCHANGED wanted
                   ELSE IF state.attempt > restart_attempts
                        THEN /\ wanted' = "Stopped"
                             /\ state' = Stopped
                        ELSE /\ state' = WaitingRestart("restart_delay",
                                                        state.attempt + 1)
                             /\ UNCHANGED wanted
            /\ UNCHANGED <<zombies>>
      [] state.tag = "Stopping.Command" ->
            /\ kill(state.pid, SIGTERM)
            /\ state' = StoppingTerminate(
                            IF kill_ok(state.pid) THEN "kill_timeout" ELSE "now",
                            state.pid)
            /\ UNCHANGED <<wanted, nextPid, stdin_open, hub>>
      [] state.tag = "Stopping.Terminate" ->
            /\ kill(state.pid, SIGKILL)
            /\ state' = StoppingKill
            /\ UNCHANGED <<wanted, nextPid, stdin_open, hub>>
      [] OTHER -> UNCHANGED <<wanted, state, procs, hub, zombies>>

handle_timeout_reached ==
    CASE state.tag = "Watching" ->
            /\ state' = Running(state.pid)
            /\ UNCHANGED <<wanted, procs, hub, zombies>>
      [] state.tag = "WaitingRestart" ->
            /\ \E res \in StartResults :
                /\ start(res)
                /\ IF res # Err
                   THEN /\ state' = Watching(res, "watch_delay", state.attempt)
                        /\ UNCHANGED wanted
                   ELSE IF state.attempt >= restart_attempts
                        THEN /\ wanted' = "Stopped"
                             /\ state' = Stopped
                        ELSE /\ state' = WaitingRestart("restart_delay",
                                                        state.attempt + 1)
                             /\ UNCHANGED wanted
            /\ UNCHANGED <<zombies>>
      [] state.tag = "Stopping.Command" ->
            /\ kill(state.pid, SIGTERM)
            /\ state' = StoppingTerminate(
                            IF kill_ok(state.pid) THEN "kill_timeout" ELSE "now",
                            state.pid)
            /\ UNCHANGED <<wanted, nextPid, stdin_open, hub>>
      [] state.tag = "Stopping.Terminate" ->
            /\ kill(state.pid, SIGKILL)
            /\ state' = StoppingKill
            /\ UNCHANGED <<wanted, nextPid, stdin_open, hub>>
      [] OTHER -> UNCHANGED <<wanted, state, procs, hub, zombies>>

\* ---------------------------------- run_deamon: fetch_event and the match
\* The states for which fetch_event arms the sleep.
TimedTags_with_running == {"Watching", "WaitingRestart", "Stopping.Command",
                           "Stopping.Terminate", "Running"}

TimedTags == {"Watching", "WaitingRestart", "Stopping.Command",
              "Stopping.Terminate"}

EventStart_skips_watching ==
    /\ pc = "fetch"
    /\ control_receiver # <<>>
    /\ Head(control_receiver) = "Start"
    /\ control_receiver' = Tail(control_receiver)
    /\ event' = Event("Start", NoPid, 0)
    /\ wanted' = "Running"
    /\ state' = IF state.tag = "Watching" THEN Running(state.pid) ELSE state
    /\ pc' = "drive"
    /\ UNCHANGED <<config, main_pc, services, exit_receiver, hub, procs, zombies, foreign>>

EventStart ==
    /\ pc = "fetch"
    /\ control_receiver # <<>>
    /\ Head(control_receiver) = "Start"
    /\ control_receiver' = Tail(control_receiver)
    /\ event' = Event("Start", NoPid, 0)
    /\ wanted' = "Running"
    /\ pc' = "drive"
    /\ UNCHANGED <<config, main_pc, services, state, exit_receiver, hub, procs, zombies, foreign>>

EventStop_ignored_when_stopping ==
    /\ pc = "fetch"
    /\ control_receiver # <<>>
    /\ Head(control_receiver) = "Stop"
    /\ control_receiver' = Tail(control_receiver)
    /\ event' = Event("Stop", NoPid, 0)
    /\ wanted' = IF state.tag \in StoppingTags THEN wanted ELSE "Stopped"
    /\ state' = IF state.tag = "Watching" THEN Running(state.pid) ELSE state
    /\ pc' = "drive"
    /\ UNCHANGED <<config, main_pc, services, exit_receiver, hub, procs, zombies, foreign>>

EventStop ==
    /\ pc = "fetch"
    /\ control_receiver # <<>>
    /\ Head(control_receiver) = "Stop"
    /\ control_receiver' = Tail(control_receiver)
    /\ event' = Event("Stop", NoPid, 0)
    /\ wanted' = "Stopped"
    /\ state' = IF state.tag = "Watching" THEN Running(state.pid) ELSE state
    /\ pc' = "drive"
    /\ UNCHANGED <<config, main_pc, services, exit_receiver, hub, procs, zombies, foreign>>

\* handle_exit_event did not return: the addition in its Watching arm
\* panicked, which unwinds run_deamon.
exit_event_panicked(pid) ==
    /\ state.tag = "Watching"
    /\ state.pid = pid
    /\ state' = state

EventProcessExited ==
    /\ pc = "fetch"
    /\ exit_receiver # <<>>
    /\ LET e == Head(exit_receiver) IN
        /\ event' = Event("ProcessExited", e.pid, e.exit_code)
        /\ handle_exit_event(e.pid, e.exit_code)
        /\ pc' = IF exit_event_panicked(e.pid) THEN "panicked" ELSE "drive"
    /\ exit_receiver' = Tail(exit_receiver)
    /\ UNCHANGED <<config, main_pc, services, wanted, control_receiver, zombies, foreign>>

EventTimeoutReached ==
    /\ pc = "fetch"
    /\ state.tag \in TimedTags
    /\ event' = Event("TimeoutReached", NoPid, 0)
    /\ handle_timeout_reached
    /\ pc' = "drive"
    /\ UNCHANGED <<config, main_pc, services, control_receiver, exit_receiver, foreign>>

\* ------------------------------------------------------ start_exit_watcher
\* One return of waitpid(None, None): an Exited status is sent to the exit
\* queue, every other status is ignored.
ExitWatcher ==
    /\ \E z \in zombies :
        /\ zombies' = zombies \ {z}
        /\ IF z.kind = "Exited"
           THEN /\ Len(exit_receiver) < MaxExitQueue
                /\ exit_receiver' = Append(exit_receiver,
                                           [pid |-> z.pid, exit_code |-> z.code])
           ELSE UNCHANGED exit_receiver
    /\ UNCHANGED <<config, main_pc, services, machine, control_receiver, hub, procs, foreign>>

\* ---------------------------------------------------- the stdin writer task
\* The writer spawned by start leaves its loop, and drops the receiver, on the
\* first failed write: a line sent to the sink meets a pipe whose other end
\* the child has closed or left behind.
StdinWriterBreaks ==
    /\ STDIN # None
    /\ stdin_open
    /\ stdin_open' = FALSE
    /\ stdin_receiver' = <<>>
    /\ UNCHANGED <<config, main_pc, machine, control_receiver, exit_receiver, hub,
                   nextPid, live, zombies, foreign, child_stdin, sched, sock>>

\* ------------------------------------------------- producers of the queues
\* start_action and stop_action of the task scheduler, and main's Stop. The
\* receiver is owned by run_deamon: once its task has died a send fails.
SendControl ==
    /\ pc # "panicked"
    /\ Len(control_receiver) < MaxControl
    /\ \E c \in {"Start", "Stop"} :
        control_receiver' = Append(control_receiver, c)
    /\ UNCHANGED <<config, main_pc, services, machine, exit_receiver, hub, procs, zombies, foreign>>

\* ------------------------------------------------------------ the children
\* A child terminates by exit(code).
ChildExit ==
    /\ \E p \in live, code \in ExitCodes :
        /\ live' = live \ {p}
        /\ zombies' = zombies \cup
                        {[pid |-> p, kind |-> "Exited", code |-> code]}
    /\ UNCHANGED <<config, main_pc, services, machine, control_receiver, exit_receiver, hub,
                   nextPid, stdin_open, foreign>>

\* A child is terminated by a signal it does not handle: a SIGTERM the
\* Supervisor sent it, or a fault of its own.
ChildSignaled ==
    /\ \E p \in live :
        /\ live' = live \ {p}
        /\ zombies' = zombies \cup
                        {[pid |-> p, kind |-> "Signaled", code |-> SIGTERM]}
    /\ UNCHANGED <<config, main_pc, services, machine, control_receiver, exit_receiver, hub,
                   nextPid, stdin_open, foreign>>

\* waitpid(None, ..) waits for any child of the process: a process the
\* Supervisor did not spawn (an orphan re-parented to it) terminates.
ForeignExit ==
    /\ foreign < MaxForeign
    /\ foreign' = foreign + 1
    /\ zombies' = zombies \cup
                    {[pid |-> ForeignPid, kind |-> "Exited", code |-> 0]}
    /\ UNCHANGED <<config, main_pc, services, machine, control_receiver, exit_receiver, hub,
                   procs>>

\* ------------------------------------------------------- main: the shutdown
\* SIGTERM or SIGINT arrives: EXITING is stored (nothing reads it) and Stop is
\* sent on CONTROL, the result of the send ignored; main then calls wait().
Signal ==
    /\ main_pc = "serving"
    /\ main_pc' = "waiting"
    /\ IF pc # "panicked"
       THEN /\ Len(control_receiver) < MaxControl
            /\ control_receiver' = Append(control_receiver, "Stop")
       ELSE UNCHANGED control_receiver
    /\ UNCHANGED <<config, services, machine, exit_receiver, hub, procs, zombies,
                   foreign>>

\* `let _ = wait();` returns: with the status of any child of the process
\* that has terminated, which it takes away from the exit watcher, or with
\* ECHILD when the process has no child. While a child is alive and no status
\* is pending it blocks.
MainWait ==
    /\ main_pc = "waiting"
    /\ main_pc' = "removing"
    /\ \/ \E z \in zombies : zombies' = zombies \ {z}
       \/ live = {} /\ zombies = {} /\ UNCHANGED zombies
    /\ UNCHANGED <<config, services, machine, control_receiver, exit_receiver,
                   hub, procs, foreign>>

\* The socket file is removed (an await, during which the other tasks run)
\* and std::process::exit(0) ends the process; the children are not touched.
MainExit ==
    /\ main_pc = "removing"
    /\ main_pc' = "exited"
    /\ UNCHANGED <<config, services, deamon_state>>

\* ---------------------------------------------------------- specification
Next ==
    \/ Drive
    \/ EventStart
    \/ EventStop
    \/ EventProcessExited
    \/ EventTimeoutReached
    \/ ExitWatcher
    \/ StdinWriterBreaks
    \/ SendControl
    \/ ChildExit
    \/ ChildSignaled
    \/ ForeignExit

Spec == Init /\ [][Next]_vars

\* The loop runs on, a ready branch of the select is eventually taken, and
\* the watcher thread keeps reaping.
Fairness ==
    /\ WF_vars(Drive)
    /\ SF_vars(EventStart)
    /\ SF_vars(EventStop)
    /\ SF_vars(EventProcessExited)
    /\ SF_vars(EventTimeoutReached)
    /\ WF_vars(ExitWatcher)

FairSpec == Spec /\ Fairness

\* The program from the loading of its configuration on.
\* The services, and with them the children, exist only once main got past
\* the loading.
ConfigNext ==
    \/ config_status = "ok" /\ Drive
    \/ config_status = "ok" /\ EventStart
    \/ config_status = "ok" /\ EventStop
    \/ config_status = "ok" /\ EventProcessExited
    \/ config_status = "ok" /\ EventTimeoutReached
    \/ config_status = "ok" /\ ExitWatcher
    \/ config_status = "ok" /\ StdinWriterBreaks
    \/ config_status = "ok" /\ SendControl
    \/ config_status = "ok" /\ ChildExit
    \/ config_status = "ok" /\ ChildSignaled
    \/ config_status = "ok" /\ ForeignExit

ConfigSpec == ConfigInit /\ [][ConfigNext]_vars

\* The program with its shutdown: the supervisor, its environment and main,
\* which waits for SIGTERM or SIGINT. Nothing of the program runs once main
\* has called exit; the runs end there.
ShutdownInit ==
    /\ restart \in RestartCondition
    /\ restart_attempts = 1
    /\ yaml_restart_attempts = restart_attempts
    /\ config_status = "ok"
    /\ command = "valid"
    /\ InitDeamon

ShutdownNext ==
    \/ main_pc # "exited" /\ Drive
    \/ main_pc # "exited" /\ EventStart
    \/ main_pc # "exited" /\ EventStop
    \/ main_pc # "exited" /\ EventProcessExited
    \/ main_pc # "exited" /\ EventTimeoutReached
    \/ main_pc # "exited" /\ ExitWatcher
    \/ main_pc # "exited" /\ StdinWriterBreaks
    \/ main_pc # "exited" /\ SendControl
    \/ main_pc # "exited" /\ ChildExit
    \/ main_pc # "exited" /\ ChildSignaled
    \/ main_pc # "exited" /\ ForeignExit
    \/ Signal
    \/ MainWait
    \/ MainExit

ShutdownSpec == ShutdownInit /\ [][ShutdownNext]_vars

\* The supervisor late in a long series of failed starts, with the largest
\* restart-attempts a configuration can hold. Each failed spawn in
\* WaitingRestart below the ceiling gives WaitingRestart with attempt + 1 and
\* nothing else changed, so the run that begins with a failed first spawn
\* and goes on with failed respawns passes through WaitingRestart at every
\* attempt from 2 to restart_attempts; the runs start at the last two.
AttemptInit ==
    /\ restart \in RestartCondition
    /\ restart_attempts = U16_MAX
    /\ yaml_restart_attempts = restart_attempts
    /\ config_status = "ok"
    /\ command = "valid"
    /\ main_pc = "serving"
    /\ wanted = "Running"
    /\ state \in {WaitingRestart("restart_delay", a) : a \in {U16_MAX - 1, U16_MAX}}
    /\ pc = "drive"
    /\ event = Event("TimeoutReached", NoPid, 0)
    /\ control_receiver = <<>>
    /\ exit_receiver = <<>>
    /\ STDIN = None
    /\ OUTPUT_WATCH = None
    /\ stdin_open = FALSE
    /\ nextPid = 1
    /\ live = {}
    /\ zombies = {}
    /\ foreign = 0
    /\ stdin_receiver = <<>>
    /\ child_stdin = <<>>
    /\ task = NoTask
    /\ firings = <<>>
    /\ InitSock(1)

AttemptNext ==
    \/ Drive
    \/ EventProcessExited
    \/ EventTimeoutReached
    \/ ExitWatcher
    \/ ChildExit

AttemptSpec == AttemptInit /\ [][AttemptNext]_vars

\* ------------------------------------------- the services around the loop
\* The socket hub, the stdin writer and the task scheduler run beside the
\* supervisor loop. Their specifications hold the loop at a state it reaches
\* and let the services run there.

\* The loop waits in fetch_event, the queues are empty, and child is the
\* child whose hub cells are installed (None: no child was spawned).
Snapshot(w, s, e, child) ==
    /\ restart = "Never"
    /\ restart_attempts = 0
    /\ yaml_restart_attempts = 0
    /\ config_status = "ok"
    /\ command = "valid"
    /\ main_pc = "serving"
    /\ wanted = w
    /\ state = s
    /\ pc = "fetch"
    /\ event = e
    /\ control_receiver = <<>>
    /\ exit_receiver = <<>>
    /\ STDIN = child
    /\ OUTPUT_WATCH = child
    /\ stdin_open = (child # None)
    /\ nextPid = child + 1
    /\ live = IF child = None THEN {} ELSE {child}
    /\ zombies = {}
    /\ foreign = 0

\* Child 1 is past its watch period.
RunningSnapshot ==
    Snapshot("Running", Running(1), Event("TimeoutReached", NoPid, 0), 1)

\* The first spawn failed and the restart delay runs.
WaitingRestartSnapshot ==
    Snapshot("Running", WaitingRestart("restart_delay", 2), NoEvent, None)

\* The respawn failed too and the Supervisor gave up.
StoppedSnapshot ==
    Snapshot("Stopped", Stopped, Event("TimeoutReached", NoPid, 0), None)

\* ---------------------------------------------------------- str::trim
IsWhitespace(c) == c \in {" ", "\n"}

RECURSIVE trim_start(_)
trim_start(s) ==
    IF s # <<>> /\ IsWhitespace(Head(s)) THEN trim_start(Tail(s)) ELSE s

RECURSIVE trim_end(_)
trim_end(s) ==
    IF s # <<>> /\ IsWhitespace(s[Len(s)])
    THEN trim_end(SubSeq(s, 1, Len(s) - 1))
    ELSE s

\* trim removes the whitespace at both ends of the string.
trim(s) == trim_end(trim_start(s))

\* ------------------------------------------------------ the stdin sink
\* sender.send(line) on a clone of the sink in STDIN, as command_action, the
\* reader task of a socket client and stop_server_command do it: the line is
\* queued while the receiver of the writer exists.
SinkSend ==
    /\ STDIN # None
    /\ stdin_open
    /\ Len(stdin_receiver) < MaxSink
    /\ Len(child_stdin) < MaxStdinBytes
    /\ \E line \in Lines : stdin_receiver' = Append(stdin_receiver, line)
    /\ UNCHANGED <<config, main_pc, machine, control_receiver, exit_receiver, hub,
                   procs, zombies, foreign, child_stdin, sched, sock>>

\* One iteration of the writer task of start: the next line is received,
\* trimmed and written, and a newline is written after it.
StdinWriter ==
    /\ stdin_open
    /\ stdin_receiver # <<>>
    /\ child_stdin' = child_stdin \o trim(Head(stdin_receiver)) \o <<"\n">>
    /\ stdin_receiver' = Tail(stdin_receiver)
    /\ UNCHANGED <<config, main_pc, machine, control_receiver, exit_receiver, hub,
                   procs, zombies, foreign, sched, sock>>

StdinInit ==
    /\ RunningSnapshot
    /\ stdin_receiver = <<>>
    /\ child_stdin = <<>>
    /\ task = NoTask
    /\ firings = <<>>
    /\ InitSock(1)

StdinNext ==
    \/ SinkSend
    \/ StdinWriter
    \/ StdinWriterBreaks

StdinSpec == StdinInit /\ [][StdinNext]_vars

\* ------------------------------------------------------ the task scheduler
\* The line a Command action of the task sends.
TaskCommand == <<"a">>

\* A firing as task_scheduler spawns it: the index of the action the for loop
\* is at, whether execute_action is being awaited, and what the actions
\* executed so far returned.
NewFiring == [next |-> 1, busy |-> FALSE, results |-> <<>>]

\* task_scheduler: the sleep up to the next time of the schedule ends and the
\* detached task that runs the action list is spawned. A schedule that does
\* not parse ends the scheduler before its loop.
TaskFire ==
    /\ task.schedule = "valid"
    /\ Len(firings) < MaxFirings
    /\ firings' = Append(firings, NewFiring)
    /\ UNCHANGED <<config, main_pc, machine, control_receiver, exit_receiver, hub,
                   procs, zombies, foreign, pipe, task, sock>>

command_action_ignores_closed(res) ==
    IF STDIN = None
    THEN res = Err /\ UNCHANGED <<stdin_receiver, control_receiver>>
    ELSE /\ res = Ok
         /\ Len(stdin_receiver) < MaxSink
         /\ stdin_receiver' = Append(stdin_receiver, TaskCommand)
         /\ UNCHANGED control_receiver

\* command_action: Err when the sink is absent or its receiver is gone,
\* otherwise the command is queued for the stdin writer.
command_action(res) ==
    IF STDIN = None \/ ~stdin_open
    THEN res = Err /\ UNCHANGED <<stdin_receiver, control_receiver>>
    ELSE /\ res = Ok
         /\ Len(stdin_receiver) < MaxSink
         /\ stdin_receiver' = Append(stdin_receiver, TaskCommand)
         /\ UNCHANGED control_receiver

\* start_action, stop_action and restart_action send on CONTROL, which deamon
\* has set and whose receiver run_deamon never drops.
control_action(controls, res) ==
    /\ res = Ok
    /\ control_receiver' = control_receiver \o controls
    /\ UNCHANGED stdin_receiver

\* backup_action returns what run_backup returns.
backup_action(res) ==
    /\ res \in {Ok, Err}
    /\ UNCHANGED <<stdin_receiver, control_receiver>>

execute_action(action, res) ==
    CASE action = "Backup" -> backup_action(res)
      [] action = "Command" -> command_action(res)
      [] action = "Start" -> control_action(<<"Start">>, res)
      [] action = "Stop" -> control_action(<<"Stop">>, res)
      [] action = "Restart" -> control_action(<<"Stop", "Start">>, res)

abort_on_error(f, res) ==
    [next |-> IF res = Err THEN Len(task.actions) + 1 ELSE f.next + 1,
     busy |-> FALSE,
     results |-> Append(f.results, res)]

\* The body of the for loop after execute_action returned res: an Err is
\* logged, and the loop goes on to the next action either way.
after_action(f, res) ==
    [next |-> f.next + 1, busy |-> FALSE, results |-> Append(f.results, res)]

\* A firing calls execute_action on the action its loop is at.
ActionBegin ==
    /\ \E i \in DOMAIN firings :
        /\ ~firings[i].busy
        /\ firings[i].next <= Len(task.actions)
        /\ firings' = [firings EXCEPT ![i].busy = TRUE]
    /\ UNCHANGED <<config, main_pc, machine, control_receiver, exit_receiver, hub,
                   procs, zombies, foreign, pipe, task, sock>>

\* The action a firing awaits takes effect and returns.
ActionReturn ==
    /\ \E i \in DOMAIN firings, res \in {Ok, Err} :
        /\ firings[i].busy
        /\ execute_action(task.actions[firings[i].next], res)
        /\ firings' = [firings EXCEPT ![i] = after_action(firings[i], res)]
    /\ UNCHANGED <<config, main_pc, machine, exit_receiver, hub, procs, zombies,
                   foreign, child_stdin, task, sock>>

TaskInit ==
    /\ \/ RunningSnapshot
       \/ WaitingRestartSnapshot
       \/ StoppedSnapshot
    /\ stdin_receiver = <<>>
    /\ child_stdin = <<>>
    /\ task \in [schedule : {"valid", "invalid"},
                 run_if_stopped : BOOLEAN,
                 actions : ActionLists]
    /\ firings = <<>>
    /\ InitSock(1)

TaskNext ==
    \/ TaskFire
    \/ ActionBegin
    \/ ActionReturn
    \/ StdinWriter
    \/ StdinWriterBreaks

TaskSpec == TaskInit /\ [][TaskNext]_vars

\* --------------------------------------------------------- the stream hub
\* The n-th line read from a child in a behaviour: lines differ from one
\* another, and each ends with the newline read_line keeps.
Letters == <<"a", "b", "c", "d">>
OutLine(n) == <<Letters[n], "\n">>

\* The bytes of a sequence of lines.
RECURSIVE Flatten(_)
Flatten(lines) ==
    IF lines = <<>> THEN <<>> ELSE Head(lines) \o Flatten(Tail(lines))

\* The lines read so far, of all children and of child g.
RECURSIVE EmittedLines(_)
EmittedLines(es) ==
    IF es = <<>> THEN <<>> ELSE <<Head(es)[2]>> \o EmittedLines(Tail(es))

RECURSIVE EmittedBy(_, _)
EmittedBy(g, es) ==
    IF es = <<>>
    THEN <<>>
    ELSE (IF Head(es)[1] = g THEN <<Head(es)[2]>> ELSE <<>>)
            \o EmittedBy(g, Tail(es))

ReadLine_enqueue_front ==
    /\ Len(emitted) < MaxOutput
    /\ \E g \in live :
        /\ Len(merge_receiver[g]) < MaxMerge
        /\ LET line == OutLine(Len(emitted) + 1) IN
            /\ OUTPUT_CACHE' = write_str(OUTPUT_CACHE, line)
            /\ merge_receiver' =
                    [merge_receiver EXCEPT ![g] = <<line>> \o @]
            /\ emitted' = Append(emitted, <<g, line>>)
    /\ UNCHANGED <<config, main_pc, deamon_state, pipe, sched, cache_size, watch,
                   clients>>

\* The stdout and the stderr reader of start: a line of a running child is
\* read, written to the ring and sent to the merge channel, both under the
\* lock of the ring.
ReadLine ==
    /\ Len(emitted) < MaxOutput
    /\ \E g \in live :
        /\ Len(merge_receiver[g]) < MaxMerge
        /\ LET line == OutLine(Len(emitted) + 1) IN
            /\ OUTPUT_CACHE' = write_str(OUTPUT_CACHE, line)
            /\ merge_receiver' =
                    [merge_receiver EXCEPT ![g] = Append(@, line)]
            /\ emitted' = Append(emitted, <<g, line>>)
    /\ UNCHANGED <<config, main_pc, deamon_state, pipe, sched, cache_size, watch,
                   clients>>

\* The tasks a connection has spawned hold a clone of the receiver.
Subscribed(c) == clients[c].phase \in {"history", "live", "borrow"}

\* watch_sender.send has a receiver to send to: the one in OUTPUT_WATCH or
\* the clone of a connection.
has_receivers(g) ==
    \/ OUTPUT_WATCH = g
    \/ \E c \in Clients : Subscribed(c) /\ clients[c].gen = g

\* The merger of child g: a line is received and sent on the watch channel;
\* send stores it as the new value unless the channel has no receiver.
Merger ==
    /\ \E g \in Children :
        /\ merge_receiver[g] # <<>>
        /\ merge_receiver' = [merge_receiver EXCEPT ![g] = Tail(@)]
        /\ watch' = IF has_receivers(g)
                    THEN [watch EXCEPT ![g] =
                            [value |-> Head(merge_receiver[g]),
                             version |-> @.version + 1]]
                    ELSE watch
    /\ UNCHANGED <<config, main_pc, deamon_state, pipe, sched, cache_size,
                   OUTPUT_CACHE, emitted, clients>>

\* The sender of the watch channel of child g is dropped: the readers have
\* met the end of the child's output and the merger has drained its channel.
watch_closed(g) ==
    /\ g < nextPid
    /\ g \notin live
    /\ merge_receiver[g] = <<>>

\* ------------------------------------------------------- handle_client
\* The sink a connection holds is the clone handle_client took out of STDIN:
\* the sender of the channel start made for the child of that time. What
\* channel.send gives on the channel of child g depends on the receiver, which
\* the stdin writer of child g owns. For the child whose sink is in STDIN
\* stdin_open tells whether the writer still has it. The writer of an earlier
\* child waits in recv until a line arrives and drops the receiver when the
\* write of that line fails, so a send on its channel is accepted as long as
\* no line has made the writer leave, and fails after.
send_results(g) ==
    IF g = STDIN
    THEN (IF stdin_open THEN {Ok} ELSE {Err})
    ELSE {Ok, Err}

\* The lines a connection sends: what their bytes are plays no part in the
\* choice of the channel.
ClientInput == {line \in Lines : Len(line) <= 1}

\* One iteration of the reader task of a connection with a line read from
\* the socket: the line is sent on the connection's clone of the sink; when
\* the send fails the task ends. input lists the lines that were accepted,
\* all of them on the channel of child channel.
client_send(cl, line, res) ==
    IF res = Err
    THEN [cl EXCEPT !.reader = FALSE]
    ELSE [cl EXCEPT !.input = Append(@, line)]

Uninitialized == [kind |-> "error", bytes |-> <<"Uninitialized">>]

handle_client_bridge_always(sink, receiver) ==
    [phase |-> "history", reader |-> TRUE, channel |-> sink, input |-> <<>>,
     gen |-> receiver, seen |-> 0,
     data |-> oldest_ordered(OUTPUT_CACHE), out |-> <<>>]

\* handle_client on the contents of STDIN and OUTPUT_WATCH: with one of them
\* absent the literal is written and the function returns; otherwise the
\* ring is copied and the reader and the writer task are spawned. The clone
\* of the receiver has seen what the receiver in the cell has seen: the
\* initial version.
handle_client(sink, receiver) ==
    IF sink = None \/ receiver = None
    THEN [phase |-> "refused", reader |-> FALSE, channel |-> None,
          input |-> <<>>, gen |-> None, seen |-> 0,
          data |-> <<>>, out |-> <<Uninitialized>>]
    ELSE [phase |-> "history", reader |-> TRUE, channel |-> sink,
          input |-> <<>>, gen |-> receiver, seen |-> 0,
          data |-> oldest_ordered(OUTPUT_CACHE), out |-> <<>>]

\* A connection is accepted and handle_client runs on it. Connections are
\* numbered in the order they are accepted in.
HandleClient ==
    /\ \E c \in Clients :
        /\ clients[c].phase = "idle"
        /\ \A d \in 1..(c - 1) : clients[d].phase # "idle"
        /\ clients' = [clients EXCEPT ![c] = handle_client(STDIN, OUTPUT_WATCH)]
    /\ UNCHANGED <<config, main_pc, deamon_state, pipe, sched, cache_size,
                   OUTPUT_CACHE, emitted, merge_receiver, watch>>

\* The reader task of a connection reads a line and sends it.
ClientSend ==
    /\ \E c \in Clients :
        /\ clients[c].reader
        /\ Len(clients[c].input) < MaxClientInput
        /\ \E line \in ClientInput, res \in send_results(clients[c].channel) :
            clients' = [clients EXCEPT ![c] = client_send(@, line, res)]
    /\ UNCHANGED <<config, main_pc, deamon_state, pipe, sched, cache_size,
                   OUTPUT_CACHE, emitted, merge_receiver, watch>>

write_nothing(cl) == [cl EXCEPT !.phase = "live"]

\* The writer task begins with the copy of the ring.
write_history(cl) ==
    [cl EXCEPT !.phase = "live",
               !.out = Append(@, [kind |-> "history", bytes |-> cl.data])]

ClientWriteHistory ==
    /\ \E c \in Clients :
        /\ clients[c].phase = "history"
        /\ clients' = [clients EXCEPT ![c] = write_history(@)]
    /\ UNCHANGED <<config, main_pc, deamon_state, pipe, sched, cache_size,
                   OUTPUT_CACHE, emitted, merge_receiver, watch>>

changed_closed_first(seen, w, closed) ==
    IF closed THEN "Err" ELSE IF w.version # seen THEN "Ok" ELSE "Pending"

\* watch.changed(): Ok when the version differs from the one seen; when it
\* does not, Err if the sender is gone, and otherwise it waits.
changed(seen, w, closed) ==
    IF w.version # seen THEN "Ok" ELSE IF closed THEN "Err" ELSE "Pending"

\* The writer task is resumed from watch.changed(): on Ok the version is
\* marked seen and the loop body runs, on Err the task ends.
ClientChanged ==
    /\ \E c \in Clients :
        /\ clients[c].phase = "live"
        /\ LET g == clients[c].gen
               res == changed(clients[c].seen, watch[g], watch_closed(g)) IN
            /\ res # "Pending"
            /\ clients' = IF res = "Ok"
                          THEN [clients EXCEPT ![c].seen = watch[g].version,
                                               ![c].phase = "borrow"]
                          ELSE [clients EXCEPT ![c].phase = "done"]
    /\ UNCHANGED <<config, main_pc, deamon_state, pipe, sched, cache_size,
                   OUTPUT_CACHE, emitted, merge_receiver, watch>>

\* watch.borrow().clone() is written: the value the channel holds now.
write_line(cl, w) ==
    [cl EXCEPT !.phase = "live",
               !.out = Append(@, [kind |-> "line", bytes |-> w.value])]

ClientWriteLine ==
    /\ \E c \in Clients :
        /\ clients[c].phase = "borrow"
        /\ clients' = [clients EXCEPT ![c] =
                            write_line(@, watch[clients[c].gen])]
    /\ UNCHANGED <<config, main_pc, deamon_state, pipe, sched, cache_size,
                   OUTPUT_CACHE, emitted, merge_receiver, watch>>

\* The hub beside a supervisor that restarts its child: no Control is sent,
\* and children end by exit.
HubInit ==
    /\ restart = "Always"
    /\ restart_attempts = 1
    /\ yaml_restart_attempts = 1
    /\ config_status = "ok"
    /\ command = "valid"
    /\ main_pc = "serving"
    /\ wanted = "Running"
    /\ state = Stopped
    /\ pc = "drive"
    /\ event = NoEvent
    /\ control_receiver = <<>>
    /\ exit_receiver = <<>>
    /\ STDIN = None
    /\ OUTPUT_WATCH = None
    /\ stdin_open = FALSE
    /\ nextPid = 1
    /\ live = {}
    /\ zombies = {}
    /\ foreign = 0
    /\ stdin_receiver = <<>>
    /\ child_stdin = <<>>
    /\ task = NoTask
    /\ firings = <<>>
    /\ \E size \in CacheSizes : InitSock(size)

HubNext ==
    \/ Drive
    \/ EventProcessExited
    \/ EventTimeoutReached
    \/ ExitWatcher
    \/ ChildExit
    \/ ReadLine
    \/ Merger
    \/ HandleClient
    \/ ClientWriteHistory
    \/ ClientChanged
    \/ ClientWriteLine

HubSpec == HubInit /\ [][HubNext]_vars

\* The hub beside a supervisor that never restarts its child.
HubNeverInit ==
    /\ restart = "Never"
    /\ restart_attempts = 1
    /\ yaml_restart_attempts = 1
    /\ config_status = "ok"
    /\ command = "valid"
    /\ InitDeamon

HubNeverSpec == HubNeverInit /\ [][HubNext]_vars

\* The input side of the hub beside a supervisor that restarts its child.
BridgeInit == HubInit /\ cache_size = 1

BridgeNext ==
    \/ Drive
    \/ EventProcessExited
    \/ EventTimeoutReached
    \/ ExitWatcher
    \/ ChildExit
    \/ HandleClient
    \/ ClientSend

BridgeSpec == BridgeInit /\ [][BridgeNext]_vars

\* The merger and the writer task of a connection are tasks of the runtime:
\* each runs on when it has something to do.
HubFairness ==
    /\ WF_vars(Merger)
    /\ WF_vars(ClientWriteHistory)
    /\ WF_vars(ClientChanged)
    /\ WF_vars(ClientWriteLine)

\* The ring plays no part in the broadcast: one size is enough here.
FairHubInit == HubInit /\ cache_size = 1

FairHubSpec == FairHubInit /\ [][HubNext]_vars /\ HubFairness

\* ------------------------------------------------------------------ claims
\* The step in which the loop fetches a ProcessExited event and handles it.
ExitEventStep ==
    /\ pc = "fetch"
    /\ exit_receiver # <<>>
    /\ exit_receiver' = Tail(exit_receiver)
    /\ pc' = "drive"

\* The statuses a child can be in before the Supervisor has fetched its exit:
\* running, terminated but not reaped, or reaped with the event in the queue.
ExitPending(p) ==
    \/ p \in live
    \/ \E z \in zombies : z.pid = p
    \/ \E i \in 1..Len(exit_receiver) : exit_receiver[i].pid = p

\* The restart policy table of the specification, entry by entry.
RestartTable ==
    {<<"Never", 0, FALSE>>, <<"Never", 1, FALSE>>,
     <<"IfCrashed", 0, FALSE>>, <<"IfCrashed", 1, TRUE>>,
     <<"UnlessCrashed", 0, TRUE>>, <<"UnlessCrashed", 1, FALSE>>,
     <<"Always", 0, TRUE>>, <<"Always", 1, TRUE>>}

\* C1: at most one child spawned by the Supervisor is alive at any instant.
C1_AtMostOneLiveChild == Cardinality(live) <= 1

\* The loop has just accepted a Stop in a state whose recorded child is alive.
StopAccepted ==
    /\ pc = "drive"
    /\ event.type = "Stop"
    /\ state.pid \in live

\* C2: after a Stop is accepted in a state with a live child, the Supervisor
\* eventually reaches Stopped (timers fire, the watcher reaps, SIGKILL kills).
C2_StopReachesStopped == StopAccepted ~> (state.tag = "Stopped")

\* C3: when ProcessExited for the recorded pid is handled in Running, a start
\* is attempted (the state becomes Watching or WaitingRestart) exactly when
\* the policy table says restart for (policy, exit code).
C3_RestartTruthTable ==
    [][(ExitEventStep /\ state.tag = "Running"
            /\ Head(exit_receiver).pid = state.pid)
        => (state'.tag \in {"Watching", "WaitingRestart"}
            <=> <<restart, Head(exit_receiver).exit_code, TRUE>>
                    \in RestartTable)]_vars

\* A crash of the running child under IfCrashed has just been answered by the
\* start of a new child, and no foreign exit has been involved.
C3_Witness ==
    /\ pc = "drive"
    /\ restart = "IfCrashed"
    /\ event.type = "ProcessExited"
    /\ event.exit_code = 1
    /\ foreign = 0
    /\ state.tag = "Watching"
    /\ state.attempt = 1
    /\ state.pid = event.pid + 1

\* C4: when the child exits from Running and the policy decides against a
\* restart, the state becomes Stopped and wanted is unchanged.
C4_NoRestartGivesStopped ==
    [][(ExitEventStep /\ state.tag = "Running"
            /\ Head(exit_receiver).pid = state.pid
            /\ <<restart, Head(exit_receiver).exit_code, FALSE>>
                    \in RestartTable)
        => (state' = Stopped /\ wanted' = wanted)]_vars

\* C5: with policy Always and restart_attempts = N, a child that spawns but
\* exits during the watch period is not restarted for ever: when attempt N + 1
\* (or a later one) ends by such an exit, the Supervisor gives up, with state
\* Stopped and wanted = Stopped.
C5_BoundedRestarts ==
    [][(ExitEventStep /\ restart = "Always" /\ state.tag = "Watching"
            /\ Head(exit_receiver).pid = state.pid
            /\ state.attempt >= restart_attempts + 1)
        => (state' = Stopped /\ wanted' = "Stopped")]_vars

\* C6: the stdin sink and the broadcast receiver are both present exactly in
\* the states Watching, Running and Stopping.Command.
C6_HubPresentIff ==
    (STDIN # None /\ OUTPUT_WATCH # None)
        <=> state.tag \in {"Watching", "Running", "Stopping.Command"}

\* C7: in Watching, Running and every Stopping sub-state a pid is recorded
\* and it is the pid of a child whose exit the Supervisor has not yet fetched.
C7_RecordedPidAlive ==
    state.tag \in {"Watching", "Running"} \cup StoppingTags
        => (state.pid # NoPid /\ ExitPending(state.pid))

\* C8: in Watching attempt <= restart_attempts, and in WaitingRestart
\* 1 <= attempt <= restart_attempts + 1.
C8_AttemptBounds ==
    /\ state.tag = "Watching" => state.attempt <= restart_attempts
    /\ state.tag = "WaitingRestart"
        => (1 <= state.attempt /\ state.attempt <= restart_attempts + 1)

\* C9: a ProcessExited whose pid differs from the recorded pid changes
\* neither the state, nor wanted, nor the hub cells.
C9_MismatchedExitDropped ==
    [][(ExitEventStep /\ Head(exit_receiver).pid # state.pid)
        => UNCHANGED <<state, wanted, STDIN, OUTPUT_WATCH>>]_vars

\* C10: every wait status the exit watcher reaps is delivered as a
\* ProcessExited event for that pid, a signal termination with exit code 0.
C10_EveryTerminationDelivered ==
    [][\A z \in zombies :
        (zombies' = zombies \ {z})
            => exit_receiver' = Append(exit_receiver,
                    [pid |-> z.pid,
                     exit_code |-> IF z.kind = "Exited" THEN z.code ELSE 0])
      ]_vars

\* The stop stages follow one another in order: Stopping.Command is entered
\* from Running, left for Stopping.Terminate or Stopped; Stopping.Terminate is
\* left for Stopping.Kill or Stopped; Stopping.Kill is left for Stopped.
StopStageOrder ==
    /\ (state'.tag = "Stopping.Command" /\ state' # state)
            => state.tag = "Running"
    /\ (state.tag = "Stopping.Command" /\ state' # state)
            => state'.tag \in {"Stopping.Terminate", "Stopped"}
    /\ (state.tag = "Stopping.Terminate" /\ state' # state)
            => state'.tag \in {"Stopping.Kill", "Stopped"}
    /\ (state.tag = "Stopping.Kill" /\ state' # state)
            => state'.tag = "Stopped"

\* C11: a Stop from Running runs through Stopping.Command, Stopping.Terminate
\* and Stopping.Kill in this order, no stage skipped or repeated, and ends in
\* Stopped, also for a child that ignores the stop command and SIGTERM.
C11_StopSequence ==
    /\ [][StopStageOrder]_vars
    /\ (state.tag = "Stopping.Command") ~> (state.tag = "Stopped")

\* The states of a run of failed starts.
FailureRunTags == {"Watching", "WaitingRestart"}

FailedRespawn ==
    /\ pc = "fetch"
    /\ state.tag = "WaitingRestart"
    /\ event'.type = "TimeoutReached"
    /\ nextPid' = nextPid

\* C13: with a negative restart_attempts the Supervisor runs without a
\* ceiling: the setting is accepted, and after a failed spawn in
\* WaitingRestart it is in WaitingRestart again, with wanted untouched.
C13_NegativeMeansUnbounded ==
    /\ [](yaml_restart_attempts < 0 => config_status = "ok")
    /\ [][(yaml_restart_attempts < 0 /\ FailedRespawn)
            => (state'.tag = "WaitingRestart" /\ wanted' = wanted)]_vars

\* The writer task has taken the line at the head of its channel and written.
StdinWriterStep ==
    /\ stdin_receiver # <<>>
    /\ stdin_open'
    /\ stdin_receiver' = Tail(stdin_receiver)

C20_SequentialNoAbort ==
    \A i \in DOMAIN firings :
        /\ Len(firings[i].results) = firings[i].next - 1
        /\ firings[i].next <= Len(task.actions) + 1
        /\ firings[i].busy => firings[i].next <= Len(task.actions)

\* A firing whose first action returned an error has executed its second.
C20_Witness ==
    \E i \in DOMAIN firings :
        /\ Len(firings[i].results) = 2
        /\ firings[i].results[1] = Err
        /\ firings[i].results[2] = Ok

\* The last n bytes of w, all of w when it is shorter.
LastBytes(w, n) ==
    SubSeq(w, Len(w) - (IF Len(w) < n THEN Len(w) ELSE n) + 1, Len(w))

\* Every byte read from the children so far, in the order of the reads.
BytesWritten == Flatten(EmittedLines(emitted))

\* C14: the ring holds at most cache_size bytes, a snapshot of it is the last
\* min(bytes written, cache_size) bytes written, in write order, over all
\* children; and only the append of a line changes the ring: no snapshot, no
\* spawn and no tear-down does.
C14_RingHoldsLastBytes ==
    /\ [](/\ Len(oldest_ordered(OUTPUT_CACHE)) <= cache_size
          /\ oldest_ordered(OUTPUT_CACHE) = LastBytes(BytesWritten, cache_size))
    /\ [][OUTPUT_CACHE' # OUTPUT_CACHE => emitted' # emitted]_vars

\* A connection took its snapshot after two children had written more than
\* the ring holds.
C14_Witness ==
    /\ cache_size = 3
    /\ Len(emitted) = 2
    /\ emitted[1][1] # emitted[2][1]
    /\ \E c \in Clients : clients[c].data = <<"\n", "b", "\n">>

\* The latest line of the child a connection is subscribed to has reached
\* the connection: nothing waits in the merge channel, the writer task has
\* seen the current version, and the last thing it wrote is that line.
Delivered(c) ==
    LET g == clients[c].gen
        lines == EmittedBy(g, emitted) IN
    /\ clients[c].phase \in {"live", "done"}
    /\ lines # <<>>
    /\ merge_receiver[g] = <<>>
    /\ clients[c].seen = watch[g].version
    /\ clients[c].out[Len(clients[c].out)] =
            [kind |-> "line", bytes |-> lines[Len(lines)]]

\* C15: a subscribed connection whose child has emitted a line is eventually
\* written the latest line of that child (the children emit finitely many
\* lines, so in the end the latest line is the last one).
C15_LatestLineDelivered ==
    \A c \in Clients :
        (Subscribed(c) /\ EmittedBy(clients[c].gen, emitted) # <<>>)
            ~> Delivered(c)

\* What a refused connection is left with.
Refused ==
    [phase |-> "refused", reader |-> FALSE, channel |-> None, input |-> <<>>,
     gen |-> None, seen |-> 0, data |-> <<>>, out |-> <<Uninitialized>>]

\* C16: a connection accepted while the stdin sink or the output subscription
\* is absent is written the literal Uninitialized and nothing else, takes no
\* snapshot and gets no reader and no writer task, for good.
C16_UninitializedOnly ==
    [][\A c \in Clients :
        /\ (clients[c].phase = "idle" /\ clients'[c].phase # "idle"
                /\ (STDIN = None \/ OUTPUT_WATCH = None))
             => clients'[c] = Refused
        /\ clients[c].phase = "refused" => clients'[c] = clients[c]
      ]_vars

\* A connection was refused although the ring holds output of a child.
C16_Witness ==
    /\ \E c \in Clients : clients[c].phase = "refused"
    /\ OUTPUT_WATCH = None
    /\ oldest_ordered(OUTPUT_CACHE) # <<>>

\* The connections handle_client has bridged.
Accepted(c) == clients[c].phase \in {"history", "live", "borrow", "done"}

\* C17: a bridged connection holds the snapshot of the ring taken when it was
\* accepted, all of it and in write order; the first thing written to it is
\* this snapshot and everything after is a line of the broadcast; each
\* connection has a snapshot and a receiver of its own.
C17_HistoryFirst ==
    /\ [](\A c \in Clients : Accepted(c) =>
            /\ clients[c].phase = "history" <=> clients[c].out = <<>>
            /\ clients[c].out # <<>> =>
                    clients[c].out[1] =
                        [kind |-> "history", bytes |-> clients[c].data]
            /\ \A i \in 2..Len(clients[c].out) :
                    clients[c].out[i].kind = "line")
    /\ [][\A c \in Clients :
            (clients[c].phase = "idle" /\ Accepted(c)')
                => /\ clients'[c].data = LastBytes(BytesWritten, cache_size)
                   /\ clients'[c].gen = OUTPUT_WATCH
                   /\ clients'[c].seen = 0
         ]_vars

\* Two connections are bridged at once, each with its own snapshot written.
C17_Witness ==
    \E c, d \in Clients :
        /\ clients[c].phase = "live"
        /\ clients[d].phase = "borrow"
        /\ clients[c].data # clients[d].data
        /\ clients[d].data # <<>>
        /\ clients[c].out[1].bytes = clients[c].data
        /\ clients[d].out[1].bytes = clients[d].data

\* The child emitted two lines; the connection was written its snapshot and
\* then the second line only: the first one was skipped.
C15_Witness ==
    \E c \in Clients :
        /\ Delivered(c)
        /\ Len(EmittedBy(clients[c].gen, emitted)) = 2
        /\ clients[c].data = <<>>
        /\ Len(clients[c].out) = 2

\* The steps in which the loop fetches a Start, a Stop, a TimeoutReached.
StartEventStep == pc = "fetch" /\ pc' = "drive" /\ event'.type = "Start"

StopEventStep == pc = "fetch" /\ pc' = "drive" /\ event'.type = "Stop"

TimeoutStep == pc = "fetch" /\ pc' = "drive" /\ event'.type = "TimeoutReached"

\* C24: a Start event sets wanted = Running and leaves the process state as
\* it is: the pid, the attempt counter and the deadline included.
C24_StartKeepsState ==
    [][StartEventStep => (wanted' = "Running" /\ state' = state)]_vars

\* A Start was fetched in the second restart delay.
C24_Witness ==
    /\ pc = "drive"
    /\ event.type = "Start"
    /\ state = WaitingRestart("restart_delay", 3)

\* C25 as stated: a Stop event in a Stopping sub-state changes neither the
\* process state nor wanted, whatever wanted was.
C25_StopIsNoOp ==
    [][(StopEventStep /\ state.tag \in StoppingTags)
            => (state' = state /\ wanted' = wanted)]_vars

\* C25 amended: a Stop event in a Stopping sub-state leaves the process state
\* as it is and sets wanted = Stopped: nothing changes when wanted is Stopped
\* already, and a Start received during the stop is revoked.
C25_StopKeepsStateSetsWanted ==
    [][(StopEventStep /\ state.tag \in StoppingTags)
            => (state' = state /\ wanted' = "Stopped")]_vars

\* A Stop was fetched while SIGKILL had been sent.
C25_Witness ==
    /\ pc = "drive"
    /\ event.type = "Stop"
    /\ state = StoppingKill
    /\ wanted = "Stopped"

\* C28: on TimeoutReached Stopping.Command always becomes Stopping.Terminate
\* of the same pid, with the kill_timeout deadline when SIGTERM was sent and
\* the deadline now when it was not; Stopping.Terminate always becomes
\* Stopping.Kill.
C28_SignalFailureAdvances ==
    [][TimeoutStep =>
        /\ state.tag = "Stopping.Command" =>
                state' = StoppingTerminate(
                            IF state.pid \in live
                                \/ \E z \in zombies : z.pid = state.pid
                            THEN "kill_timeout" ELSE "now",
                            state.pid)
        /\ state.tag = "Stopping.Terminate" => state' = StoppingKill
      ]_vars

\* SIGTERM could not be sent and the state advanced with the deadline now.
C28_Witness ==
    /\ pc = "drive"
    /\ event.type = "TimeoutReached"
    /\ state.tag = "Stopping.Terminate"
    /\ state.timeout_at = "now"

\* C29: the three outcomes of TimeoutReached in WaitingRestart, and no other.
C29_WaitingRestartOutcomes ==
    [][(TimeoutStep /\ state.tag = "WaitingRestart") =>
        \/ /\ nextPid' = nextPid + 1
           /\ state' = Watching(nextPid, "watch_delay", state.attempt)
           /\ wanted' = wanted
        \/ /\ nextPid' = nextPid
           /\ state.attempt >= restart_attempts
           /\ state' = Stopped
           /\ wanted' = "Stopped"
        \/ /\ nextPid' = nextPid
           /\ state.attempt < restart_attempts
           /\ state' = WaitingRestart("restart_delay", state.attempt + 1)
           /\ wanted' = wanted
      ]_vars

\* A respawn failed below the ceiling and the next restart delay runs.
C29_Witness ==
    /\ pc = "drive"
    /\ event.type = "TimeoutReached"
    /\ restart_attempts = MaxRestartAttempts
    /\ state = WaitingRestart("restart_delay", 3)

\* C30: TimeoutReached is fetched only in Watching, WaitingRestart,
\* Stopping.Command and Stopping.Terminate, and the state it is handled in
\* is replaced by another one.
C30_TimeoutOnlyInTimedStates ==
    [][TimeoutStep =>
        /\ state.tag \in {"Watching", "WaitingRestart", "Stopping.Command",
                          "Stopping.Terminate"}
        /\ state' # state
      ]_vars

\* The timer of a WaitingRestart fired and a new WaitingRestart began.
C30_Witness ==
    /\ pc = "drive"
    /\ event.type = "TimeoutReached"
    /\ state.tag = "WaitingRestart"
    /\ state.attempt = 3
    /\ wanted = "Running"

\* One drive step of run_deamon: the match on (wanted, state) has run.
DriveStep == pc = "drive" /\ pc' = "fetch"

\* The stop command cannot be delivered: the sink is absent, or the stdin
\* writer that held its receiver has ended.
StopUndeliverable == STDIN = None \/ ~stdin_open

\* C26: a Stop event received in Watching{pid} sets wanted = Stopped and
\* moves the state to Running{pid} with the same pid, and the drive step that
\* follows the Stop enters Stopping.Command{pid} with the term_timeout
\* deadline, without waiting for the watch deadline.
C26_StopShortcutsWatching ==
    /\ [][(StopEventStep /\ state.tag = "Watching")
            => (wanted' = "Stopped" /\ state' = Running(state.pid))]_vars
    /\ [][(DriveStep /\ event.type = "Stop" /\ state.tag = "Running")
            => state' = StoppingCommand("term_timeout", state.pid)]_vars

\* The first half of C26 alone: the Stop arm in Watching.
C26_StopArmInWatching ==
    [][(StopEventStep /\ state.tag = "Watching")
            => (wanted' = "Stopped" /\ state' = Running(state.pid))]_vars

\* A Stop is about to be fetched in Watching while the stdin writer of the
\* watched child has already ended.
C26_WatchingWithBrokenSink ==
    /\ pc = "fetch"
    /\ state.tag = "Watching"
    /\ control_receiver # <<>>
    /\ Head(control_receiver) = "Stop"
    /\ exit_receiver = <<>>
    /\ StopUndeliverable

\* C27: in the drive step with wanted = Stopped and state Running{pid}, when
\* the stop command cannot be delivered the Supervisor escalates at once, so
\* the state does not remain Running{pid}.
C27_UndeliverableStopEscalates ==
    [][(DriveStep /\ wanted = "Stopped" /\ state.tag = "Running"
            /\ StopUndeliverable)
            => state' # state]_vars

\* The state the drive step leaves behind in that case: Running, wanted =
\* Stopped, no timer armed, nothing queued, the child alive.
C27_StuckRunning ==
    /\ pc = "fetch"
    /\ wanted = "Stopped"
    /\ state.tag = "Running"
    /\ state.pid \in live
    /\ StopUndeliverable
    /\ control_receiver = <<>>
    /\ exit_receiver = <<>>

\* A Restart action has been issued while child p is alive and recorded in
\* the state: Stop and then Start are queued on the control channel, in that
\* order, and nothing else.
RestartIssued(p) ==
    /\ control_receiver = <<"Stop", "Start">>
    /\ state.tag \in {"Watching", "Running"} \cup StoppingTags
    /\ state.pid = p
    /\ p \in live

\* C21: a Restart action enqueues Stop and then Start, in that order; issued
\* in a state with a live child, the old child is stopped (it is no longer
\* alive at some later point), which is what has to happen before a new child
\* is spawned and the machine settles with wanted = Running.
C21_RestartStopsOldChild ==
    \A p \in Children : RestartIssued(p) ~> (p \notin live)

\* The end of a Restart that stopped nothing: both controls consumed, wanted
\* = Running, the old child still the one recorded in Running and alive.
C21_RestartDidNothing ==
    /\ pc = "fetch"
    /\ event.type = "Start"
    /\ wanted = "Running"
    /\ state.tag = "Running"
    /\ state.pid \in live
    /\ StopUndeliverable
    /\ control_receiver = <<>>

\* C23: the Supervisor loop never stops: whatever the command string and
\* whatever fails, the loop is at its drive step or waiting for the next
\* event, able to consume it.
C23_LoopNeverStops == config_status = "ok" => pc \in {"drive", "fetch"}

\* The loop of a run with an invalid command goes on: the parse error of
\* every start is turned into WaitingRestart and at last into Stopped.
C23_InvalidCommandHandled ==
    /\ command = "invalid"
    /\ pc = "fetch"
    /\ state.tag = "Stopped"
    /\ wanted = "Stopped"

\* C22: on SIGTERM or SIGINT the process sends Stop to the Supervisor and
\* does not exit until the child is gone: in no state has main exited while a
\* child spawned by the Supervisor is alive.
C22_NoExitWhileChildAlive == main_pc = "exited" => live = {}

\* A shutdown as it is meant to go: the child was stopped, and main has
\* exited with no child alive and the Supervisor in Stopped.
C22_CleanShutdown ==
    /\ main_pc = "exited"
    /\ live = {}
    /\ nextPid > 1
    /\ state.tag = "Stopped"
    /\ wanted = "Stopped"

\* C33: while wanted = Stopped the Supervisor never spawns a child; a Stop
\* received in WaitingRestart cancels the pending restart, so no step taken
\* with wanted = Stopped allocates a new pid.
C33_NoSpawnWhileStopped == [][wanted = "Stopped" => nextPid' = nextPid]_vars

\* A child in its watch period that was spawned by the restart timer although
\* a Stop had been accepted before: wanted is still Stopped.
C33_SpawnedAlthoughStopped ==
    /\ pc = "drive"
    /\ event.type = "TimeoutReached"
    /\ wanted = "Stopped"
    /\ state.tag = "Watching"
    /\ state.pid \in live

\* The exit of the child recorded in Running has just been handled and the
\* policy decided against a restart: the state still is Running{p}.
ExitedWithoutRestart(p) ==
    /\ pc = "drive"
    /\ event.type = "ProcessExited"
    /\ event.pid = p
    /\ state = Running(p)

\* C34: after the child has exited from Running and the policy decided
\* against a restart, a Start control that is consumed later leads to a new
\* start (Watching when the spawn succeeds, WaitingRestart when it fails).
C34_StartAfterExitSpawns ==
    \A p \in Children :
        (ExitedWithoutRestart(p) /\ wanted = "Running"
            /\ control_receiver = <<"Start">>)
        ~> (state.tag \in {"Watching", "WaitingRestart"})

\* The same with a Stop followed by a Start.
C34_StopStartAfterExitSpawns ==
    \A p \in Children :
        (ExitedWithoutRestart(p) /\ control_receiver = <<"Stop", "Start">>)
        ~> (state.tag \in {"Watching", "WaitingRestart"})

\* C35: the Supervisor never signals a pid after the ProcessExited event for
\* that pid has been consumed. Stopping.Terminate{p} is entered only by the
\* step that sent SIGTERM to p, and every exit event handled in a Stopping
\* state leaves it for Stopped, so once the exit of p has been consumed the
\* state is never Stopping.Terminate{p} again.
C35_NoSignalAfterExitConsumed ==
    \A p \in Children :
        []((pc = "drive" /\ event.type = "ProcessExited" /\ event.pid = p)
            => [](~(state.tag = "Stopping.Terminate" /\ state.pid = p)))

\* SIGTERM has just been sent to a pid that is neither running nor waiting to
\* be reaped, and whose exit is not in the queue either.
C35_SignalToGonePid ==
    /\ pc = "drive"
    /\ event.type = "TimeoutReached"
    /\ state.tag = "Stopping.Terminate"
    /\ state.timeout_at = "now"
    /\ ~ExitPending(state.pid)

\* The exit of the child recorded in Watching is taken from the exit queue.
WatchedChildExitStep ==
    /\ pc = "fetch"
    /\ exit_receiver # <<>>
    /\ event'.type = "ProcessExited"
    /\ exit_receiver' = Tail(exit_receiver)
    /\ state.tag = "Watching"
    /\ Head(exit_receiver).pid = state.pid

\* C40: the 16-bit attempt counter never overflows: every increment gives
\* attempt + 1 within 0..65535, after an exit during the watch period as well
\* as after a failed respawn, and the Supervisor is not aborted by it.
C40_AttemptNeverOverflows ==
    /\ [][WatchedChildExitStep
            => (/\ pc' = "drive"
                /\ state'.tag = "WaitingRestart"
                /\ state'.attempt = state.attempt + 1
                /\ state'.attempt \in 0..U16_MAX)]_vars
    /\ [][(FailedRespawn /\ state'.tag = "WaitingRestart")
            => (/\ state'.attempt = state.attempt + 1
                /\ state'.attempt \in 0..U16_MAX)]_vars

\* The increment after a failed respawn alone: it happens only below the
\* ceiling, which is at most 65535.
C40_RespawnIncrementFits ==
    [][(FailedRespawn /\ state'.tag = "WaitingRestart")
            => (/\ state'.attempt = state.attempt + 1
                /\ state'.attempt \in 0..U16_MAX)]_vars

\* The counter has wrapped: WaitingRestart with attempt 0 after the exit of a
\* child that was watched at attempt 65535.
C40_Wrapped ==
    /\ pc = "drive"
    /\ event.type = "ProcessExited"
    /\ state.tag = "WaitingRestart"
    /\ state.attempt = 0

\* The run_deamon task has died of the overflow.
C40_Aborted ==
    /\ pc = "panicked"
    /\ event.type = "ProcessExited"
    /\ state.tag = "Watching"
    /\ state.attempt = U16_MAX

\* Firing i gets the result res of the Command action it was awaiting.
CommandReturnStep(i, res) ==
    /\ i \in DOMAIN firings
    /\ firings[i].busy
    /\ task.actions[firings[i].next] = "Command"
    /\ firings' = [firings EXCEPT ![i] = after_action(firings[i], res)]

\* C32 as stated: a Command action executed while the stdin sink is absent
\* returns an error and delivers nothing, and whenever the sink is present
\* the text is enqueued exactly once for the stdin writer.
C32_CommandBySinkPresence ==
    [][\A i \in 1..MaxFirings, res \in {Ok, Err} :
        CommandReturnStep(i, res)
            => IF STDIN = None
               THEN res = Err /\ stdin_receiver' = stdin_receiver
               ELSE /\ res = Ok
                    /\ stdin_receiver' = Append(stdin_receiver, TaskCommand)]_vars

\* C32: a Command action returns an error and delivers nothing while the
\* stdin sink is absent or the writer task behind it has ended; otherwise it
\* returns Ok and the text is enqueued exactly once for the stdin writer.
C32_CommandBySinkAndWriter ==
    [][\A i \in 1..MaxFirings, res \in {Ok, Err} :
        CommandReturnStep(i, res)
            => IF STDIN = None \/ ~stdin_open
               THEN res = Err /\ stdin_receiver' = stdin_receiver
               ELSE /\ res = Ok
                    /\ stdin_receiver' = Append(stdin_receiver, TaskCommand)]_vars

\* One firing delivered its command; the writer task then ended, and the
\* Command of the other firing returned an error with the sink still there.
C32_Witness ==
    /\ STDIN # None
    /\ ~stdin_open
    /\ task.actions # <<>>
    /\ task.actions[1] = "Command"
    /\ \E i, j \in DOMAIN firings :
        /\ firings[i].results # <<>>
        /\ firings[i].results[1] = Ok
        /\ firings[j].results # <<>>
        /\ firings[j].results[1] = Err
    /\ child_stdin # <<>>

\* q is the end of s.
IsSuffix(q, s) ==
    /\ Len(q) <= Len(s)
    /\ SubSeq(s, Len(s) - Len(q) + 1, Len(s)) = q

IsLineChunk(ch) == ch.kind = "line"
LinesWritten(c) ==
    LET ls == SelectSeq(clients[c].out, IsLineChunk) IN
    [i \in 1..Len(ls) |-> ls[i].bytes]

\* Connection c has nothing left to receive: the merge channel of its child is
\* empty and its writer task has seen the latest version of the watch.
CaughtUp(c) ==
    /\ clients[c].phase \in {"live", "done"}
    /\ merge_receiver[clients[c].gen] = <<>>
    /\ clients[c].seen = watch[clients[c].gen].version

\* C31: every line the child emits after a connection has subscribed is
\* written to it. For a connection that subscribed before any line was read
\* (its snapshot of the ring is empty) and has nothing left to receive, the
\* lines written are the lines of its child, none skipped.
C31_EveryLineWritten ==
    \A c \in Clients :
        (clients[c].data = <<>> /\ CaughtUp(c))
            => LinesWritten(c) = EmittedBy(clients[c].gen, emitted)

\* bytes occurs in data as a run of consecutive bytes.
Contains(data, bytes) ==
    \E k \in 1..Len(data) :
        /\ k + Len(bytes) - 1 <= Len(data)
        /\ SubSeq(data, k, k + Len(bytes) - 1) = bytes

\* C37: a connection is written each output line at most once: a line that
\* is in the snapshot of the ring written to it is not written again from
\* the subscription, and no line is written twice from the subscription.
C37_EachLineOnce ==
    \A c \in Clients :
        LET ls == LinesWritten(c) IN
        /\ \A i \in 1..Len(ls) : ~Contains(clients[c].data, ls[i])
        /\ \A i, j \in 1..Len(ls) : i # j => ls[i] # ls[j]

\* The lines are written once each from the subscription itself.
C37_NoRepeatFromSubscription ==
    \A c \in Clients :
        LET ls == LinesWritten(c) IN
        \A i, j \in 1..Len(ls) : i # j => ls[i] # ls[j]

\* No child is alive and the Supervisor has handled every exit.
NoChildLeft ==
    /\ live = {}
    /\ zombies = {}
    /\ exit_receiver = <<>>
    /\ pc = "fetch"

\* C36: a connection accepted while no child is alive, the exit of the last
\* child handled (an exit from Running without restart, or a completed stop),
\* is refused with Uninitialized; it is not bridged to the sink and the
\* broadcast of a child that has exited.
C36_RefusedWithoutChild ==
    [][\A c \in Clients :
        (clients[c].phase = "idle" /\ clients'[c].phase # "idle" /\ NoChildLeft)
            => clients'[c].phase = "refused"]_vars

\* The refusal where the code does clear the cells: a connection accepted
\* after the watched child exited.
C36_RefusedAfterWatchingExit ==
    \E c \in Clients :
        /\ clients[c].phase = "refused"
        /\ state.tag = "WaitingRestart"
        /\ nextPid > 1

\* A connection is bridged to the child that exited from Running and was not
\* restarted, with the exit already handled.
C36_BridgedToExitedChild ==
    \E c \in Clients :
        /\ Subscribed(c)
        /\ clients[c].reader
        /\ state = Running(clients[c].gen)
        /\ ~ExitPending(clients[c].gen)
        /\ event.type = "ProcessExited"
        /\ EmittedBy(clients[c].gen, emitted) = <<>>

\* The step in which the send of a line by connection c is accepted.
ClientSendAccepted(c) ==
    /\ clients[c].reader
    /\ clients'[c].input # clients[c].input

\* C39: every line a connected client sends goes to the stdin of the child
\* that is alive when the line is sent: the send that accepts the line is
\* made on the channel of that child, also when the connection was accepted
\* before the child was started.
C39_InputGoesToLiveChild ==
    [][\A c \in Clients :
        ClientSendAccepted(c) => \A g \in live : clients[c].channel = g]_vars

\* A line of a connection was accepted on the channel of the child that is
\* alive now.
C39_SentToLiveChild ==
    \E c \in Clients :
        /\ clients[c].input # <<>>
        /\ clients[c].channel \in live

\* A line of a connection accepted before the restart was taken by the
\* channel of the child that ran before.
C39_SentToPreviousChild ==
    \E c \in Clients :
        /\ clients[c].input # <<>>
        /\ clients[c].channel \notin live
        /\ live # {}
        /\ STDIN \in live

====
